---- MODULE Spec2Model ----
(***************************************************************************)
(* The three crawlers of EU_Medical_Device_Scrapers                         *)
(*   A  dutch_scraper_main.py   (list-of-links layout)                      *)
(*   B  german_scraper_main.py  (tabular layout)                            *)
(*   C  italy_scraper_main.py   (generic tabular layout)                    *)
(* as one state machine: the crawl loop of the running script, one action   *)
(* per loop iteration and one per sink call.  The web site is an input: a   *)
(* page is fixed the first time its URL is fetched and is the same on       *)
(* every later fetch of that URL.                                           *)
(***************************************************************************)
EXTENDS Integers, Sequences, FiniteSets, TLC

VARIABLES
    variant,    \* which script runs: "A", "B" or "C"
    site,       \* page id -> the page served there (NoPage until first fetched)
    next_url,   \* the loop's current URL (next_url in all three scripts)
    data_list,  \* the loop's accumulator (data_list; all_data in C)
    data,       \* what the crawl handed to its caller: [bound, val]
    log,        \* the URLs passed to the HTTP GET, in order
    pc,         \* "running", "done", "aborted", "written", "nooutput", "sinkfailed";
                \* "extract", "extracted", "raised" under SpecExtract
    opens,      \* how many times the output file was opened for writing
    file,       \* the output file: [exists, header, rows]
    printed     \* the diagnostics printed so far (a set of message tags)

vars == <<variant, site, next_url, data_list, data, log, pc, opens, file, printed>>

----------------------------------------------------------------------------
(* Bounds of the model *)

NumURLs == 2        \* absolute page URLs the site can serve
MaxItems == 2       \* repeating elements per page in the crawl
MaxCells == 2       \* td cells per table row
ExtraFetches == 3   \* fetches allowed beyond one per URL before the model stops

MaxFetches == NumURLs + 1 + ExtraFetches

Variants == {"A", "B", "C"}
Ids == {"1", "2"}

----------------------------------------------------------------------------
(* Values *)

\* A text is a sequence of tokens.  An element is present with a text, or absent
\* (find() returned None).
Absent == [present |-> FALSE, text |-> <<>>]
El(t) == [present |-> TRUE, text |-> t]

NA == <<"N/A">>

\* URL values.  None is Python's None, Empty the empty string; both are falsy.
NoneUrl == [kind |-> "none", id |-> 0]
EmptyUrl == [kind |-> "empty", id |-> 0]
AbsUrl(i) == [kind |-> "abs", id |-> i]
RelUrl(i) == [kind |-> "rel", id |-> i]

PageIds == 1 .. NumURLs
Hrefs == {NoneUrl, EmptyUrl} \cup {AbsUrl(i) : i \in PageIds} \cup {RelUrl(1)}

Truthy(u) == u.kind \in {"abs", "rel"}

\* urljoin(base, href): imported by the Dutch script, never called.
urljoin(base, href) ==
    IF href.kind = "rel" THEN AbsUrl(href.id) ELSE href

start_url == AbsUrl(1)

\* Sequences over S of length at most n.
SeqsUpTo(S, n) == UNION {[1 .. k -> S] : k \in 0 .. n}

Last(s) == s[Len(s)]

RECURSIVE Concat(_)
Concat(ss) == IF ss = <<>> THEN <<>> ELSE Head(ss) \o Concat(Tail(ss))

----------------------------------------------------------------------------
(* Pages *)

\* The next-page navigation of a page.  elem: the marked element exists (the li
\* in A and B, the titled anchor in C).  a: an anchor is found (inside the li in
\* A and B; the element itself in C).  href: the anchor's href attribute.
NoNav == [elem |-> FALSE, a |-> FALSE, href |-> NoneUrl]
LiNoA == [elem |-> TRUE, a |-> FALSE, href |-> NoneUrl]
NavA(h) == [elem |-> TRUE, a |-> TRUE, href |-> h]

Navs(v) ==
    {NoNav} \cup {NavA(h) : h \in Hrefs} \cup (IF v = "C" THEN {} ELSE {LiNoA})

\* Variant A: one a.publication element with its h3, its plain p and its p.meta
\* (whose text may hold "|" separator tokens).
ItemA(id, h3, p, meta) ==
    [h3 |-> IF h3 THEN El(<<"title", id>>) ELSE Absent,
     p |-> IF p THEN El(<<"warning", id>>) ELSE Absent,
     meta |-> CASE meta = 0 -> Absent
                [] meta = 1 -> El(<<"date", id>>)
                [] OTHER -> El(<<"Published", "|", "date", id>>)]

ItemsA ==
    {ItemA(id, h3, p, meta) : id \in Ids, h3 \in BOOLEAN, p \in BOOLEAN, meta \in 0 .. 2}

\* Variant B: one tr with its td cells; a and strongs are the anchor and the
\* strong elements of the second cell, each strong given as its next sibling
\* (a text node, or absent).
SibTag(k) == IF k = 1 THEN "type" ELSE IF k = 2 THEN "ref" ELSE "more"

RowB(id, ntd, a, sibs) ==
    [tds |-> [i \in 1 .. ntd |-> <<"cell", id>>],
     a |-> IF ntd >= 2 /\ a THEN El(<<"device", id>>) ELSE Absent,
     strongs |-> IF ntd >= 2
                 THEN [k \in 1 .. Len(sibs) |->
                          IF sibs[k] THEN El(<<SibTag(k), id>>) ELSE Absent]
                 ELSE <<>>]

\* The strong elements of a details cell: none, one, two or three, each with
\* or without a text node after it.
SibPatterns ==
    SeqsUpTo(BOOLEAN, 2) \cup {<<TRUE, TRUE, TRUE>>, <<TRUE, TRUE, FALSE>>}

RowsB ==
    {RowB(id, ntd, a, sibs) :
        id \in Ids, ntd \in 0 .. MaxCells, a \in BOOLEAN, sibs \in SibPatterns}

\* Variant C: one tr of the configured table with its td cells; a cell text may
\* carry a lone surrogate.
RowC(id, ntd, sur) ==
    [tds |-> [i \in 1 .. ntd |-> IF sur THEN <<"SUR", "col", id>> ELSE <<"col", id>>]]

RowsC == {RowC(id, ntd, sur) : id \in Ids, ntd \in 0 .. MaxCells, sur \in BOOLEAN}

Items(v) == CASE v = "A" -> ItemsA [] v = "B" -> RowsB [] OTHER -> RowsC

\* The items the crawl draws pages from: well-formed ones and one of each kind
\* the extractor treats differently.
CrawlItems(v) ==
    CASE v = "A" -> {ItemA("1", TRUE, TRUE, 2), ItemA("2", TRUE, TRUE, 1),
                     ItemA("1", FALSE, TRUE, 2)}
      [] v = "B" -> {RowB("1", 2, TRUE, <<TRUE, TRUE>>), RowB("2", 2, FALSE, <<>>),
                     RowB("1", 2, TRUE, <<TRUE, FALSE>>)}
      [] OTHER -> {RowC("1", 1, FALSE), RowC("2", 1, TRUE), RowC("1", 0, FALSE)}

\* A page: whether the GET succeeds, whether the configured table exists
\* (read by C only), the repeating elements in document order, the navigation.
Page(fetch, table, items, nav) ==
    [fetch |-> fetch, table |-> table, items |-> items, nav |-> nav]

NoPage == Page("unfetched", FALSE, <<>>, NoNav)
FailPage == Page("fail", FALSE, <<>>, NoNav)

\* In C the first tr is the header row, so a page may hold one row more.
MaxRows(v) == IF v = "C" THEN MaxItems + 1 ELSE MaxItems

\* A header row: th cells only.
HeaderC == [tds |-> <<>>]

\* The element sequences of the pages the crawl is served: in C a table is
\* empty or starts with its header row.
CrawlSeqs(v) ==
    IF v = "C"
    THEN {<<>>} \cup {<<HeaderC>> \o rows : rows \in SeqsUpTo(CrawlItems(v), MaxItems)}
    ELSE SeqsUpTo(CrawlItems(v), MaxItems)

CrawlPages(v) ==
    {FailPage} \cup
    {Page("ok", v = "C", items, nav) : items \in CrawlSeqs(v), nav \in Navs(v)}
    \cup (IF v = "C" THEN {Page("ok", FALSE, <<>>, nav) : nav \in Navs(v)} ELSE {})

----------------------------------------------------------------------------
(* Record extraction *)

\* text.split('|')[-1]: the tokens after the last "|".
RECURSIVE SplitLast(_)
SplitLast(t) ==
    IF \E i \in 1 .. Len(t) : t[i] = "|" THEN SplitLast(Tail(t)) ELSE t

\* remove_surrogates: encode with surrogatepass, decode ignoring what is invalid.
remove_surrogates(text) == SelectSeq(text, LAMBDA c : c # "SUR")

\* link.find('p'): the first p of the anchor, the meta paragraph when no plain
\* paragraph precedes it.
FirstP(link) == IF link.p.present THEN link.p ELSE link.meta

\* Variant A, one a.publication element.
RaisesA(link) ==
    \/ ~link.h3.present
    \/ ~FirstP(link).present
    \/ ~link.meta.present

RecordA(link) ==
    [title |-> link.h3.text,
     warning_text |-> FirstP(link).text,
     date |-> SplitLast(link.meta.text)]

\* Variant B, one tr.
\* SkipRowB with the threshold one lower: only rows without any cell are skipped.
SkipRowBNoCell(tr) == Len(tr.tds) < 1

SkipRowB(tr) == Len(tr.tds) < 2

HasStrongPair(tr) == Len(tr.strongs) >= 2

RaisesB(tr) ==
    \/ Len(tr.tds) < 2
    \/ HasStrongPair(tr) /\ (~tr.strongs[1].present \/ ~tr.strongs[2].present)

RecordB(tr) ==
    [date |-> tr.tds[1],
     device |-> IF tr.a.present THEN tr.a.text ELSE NA,
     device_type |-> IF HasStrongPair(tr) THEN tr.strongs[1].text ELSE NA,
     device_reference |-> IF HasStrongPair(tr) THEN tr.strongs[2].text ELSE NA]

\* Variant C, one tr after the header row.
RaisesC(row) == Len(row.tds) < 1

RecordC(row) == [column_1 |-> remove_surrogates(row.tds[1])]

Skips(v, e) == v = "B" /\ SkipRowB(e)

Raises(v, e) ==
    CASE v = "A" -> RaisesA(e) [] v = "B" -> RaisesB(e) [] OTHER -> RaisesC(e)

RecordOf(v, e) ==
    CASE v = "A" -> RecordA(e) [] v = "B" -> RecordB(e) [] OTHER -> RecordC(e)

\* The for loop of the extractor: acc is the local list built so far; a raise
\* leaves the loop with the list as it then is.
RECURSIVE ExtractLoop(_, _, _)
ExtractLoop(v, elems, acc) ==
    IF elems = <<>> THEN [raised |-> FALSE, recs |-> acc]
    ELSE IF Skips(v, Head(elems)) THEN ExtractLoop(v, Tail(elems), acc)
    ELSE IF Raises(v, Head(elems)) THEN [raised |-> TRUE, recs |-> acc]
    ELSE ExtractLoop(v, Tail(elems), Append(acc, RecordOf(v, Head(elems))))

\* The elements the loop of variant v runs over.
Elements(v, page) ==
    IF v = "C"
    THEN IF page.table /\ page.items # <<>> THEN Tail(page.items) ELSE <<>>
    ELSE page.items

Extract(v, page) == ExtractLoop(v, Elements(v, page), <<>>)

----------------------------------------------------------------------------
(* Next-link resolution *)

\* NextHref with the href joined against the URL of the current page.
NextHrefJoined(url, nav) == urljoin(url, nav.href)

\* next_link.get('href'): the attribute value as it stands in the page.
NextHref(url, nav) == nav.href

ResolveA(url, nav) ==
    IF nav.elem
    THEN IF nav.a
         THEN [raised |-> FALSE, next_url |-> NextHref(url, nav),
               printed |-> {"Next URL found"}]
         ELSE [raised |-> FALSE, next_url |-> NoneUrl,
               printed |-> {"No <a> tag found"}]
    ELSE [raised |-> FALSE, next_url |-> NoneUrl,
          printed |-> {"No next link element found"}]

\* soup.find('li', ...).find('a'): the second find is called on None when the
\* li is missing.
ResolveB(url, nav) ==
    IF ~nav.elem THEN [raised |-> TRUE, next_url |-> NoneUrl, printed |-> {}]
    ELSE IF nav.a
         THEN [raised |-> FALSE, next_url |-> NextHref(url, nav), printed |-> {}]
         ELSE [raised |-> FALSE, next_url |-> NoneUrl, printed |-> {}]

get_next_page(url, nav) ==
    IF nav.elem
    THEN [raised |-> FALSE, next_url |-> NextHref(url, nav), printed |-> {}]
    ELSE [raised |-> FALSE, next_url |-> NoneUrl, printed |-> {}]

Resolve(v, url, nav) ==
    CASE v = "A" -> ResolveA(url, nav)
      [] v = "B" -> ResolveB(url, nav)
      [] OTHER -> get_next_page(url, nav)

----------------------------------------------------------------------------
(* One page call *)

\* The GET: requests raises for a URL without a scheme and for a transport
\* failure.
FetchOK(url, page) == url.kind = "abs" /\ page.fetch = "ok"

\* ExceptDataA with the records built before the exception kept.
ExceptDataPartial(partial) == partial

\* What the except clause of the Dutch get_data_page returns as data, given
\* the records built before the exception.
ExceptDataA(partial) == <<>>

\* The Dutch get_data_page: every exception is caught.
GetDataPageA(url, page) ==
    LET ex == Extract("A", page)
        rs == ResolveA(url, page.nav)
    IN  IF FetchOK(url, page) /\ ~ex.raised
        THEN [raised |-> FALSE, data_page |-> ex.recs, next_url |-> rs.next_url,
              printed |-> rs.printed]
        ELSE [raised |-> FALSE,
              data_page |-> ExceptDataA(IF FetchOK(url, page) THEN ex.recs ELSE <<>>),
              next_url |-> NoneUrl, printed |-> {"Error occurred"}]

\* The German get_data_page, and the Italian get_page / scrape_page /
\* get_next_page of one iteration: an exception leaves the call.
Propagating(v, url, page) ==
    LET ex == Extract(v, page)
        rs == Resolve(v, url, page.nav)
    IN  IF FetchOK(url, page) /\ ~ex.raised /\ ~rs.raised
        THEN [raised |-> FALSE, data_page |-> ex.recs, next_url |-> rs.next_url,
              printed |-> rs.printed]
        ELSE [raised |-> TRUE, data_page |-> <<>>, next_url |-> NoneUrl,
              printed |-> {}]

GetDataPageB(url, page) == Propagating("B", url, page)

IterationC(url, page) == Propagating("C", url, page)

PageCall(v, url, page) ==
    CASE v = "A" -> GetDataPageA(url, page)
      [] v = "B" -> GetDataPageB(url, page)
      [] OTHER -> IterationC(url, page)

----------------------------------------------------------------------------
(* The crawl loop *)

Range(s) == {s[i] : i \in 1 .. Len(s)}

\* Extend with the page's records put in front of the accumulator.
ExtendFront(acc, data_page) == data_page \o acc

\* data_list.extend(data_page)
Extend(acc, data_page) == acc \o data_page

\* WhileCond of an if in place of the while: one iteration only.
WhileCondOnce == Truthy(next_url) /\ Len(log) < 1

\* WhileCond of a loop that also stops at a URL it has fetched before.
WhileCondVisited == Truthy(next_url) /\ next_url \notin Range(log)

\* while next_url:
WhileCond == Truthy(next_url)

\* The page a GET of url obtains: the one already served there, any page when
\* the URL is fetched for the first time, none for a URL without a scheme.
Served(v, url) ==
    IF url.kind # "abs" THEN {NoPage}
    ELSE IF site[url.id] = NoPage THEN CrawlPages(v)
    ELSE {site[url.id]}

Serve(url, page) ==
    IF url.kind = "abs" THEN [site EXCEPT ![url.id] = page] ELSE site

\* One iteration of the while loop of script v, with the loop test that
\* follows it; the loop's exit returns the accumulator to the caller.
Iteration(v, fetching) ==
    /\ variant = v
    /\ pc = "running"
    /\ Len(log) < MaxFetches
    /\ \E page \in Served(v, next_url) :
          LET r == PageCall(v, next_url, page) IN
          /\ log' = Append(log, next_url)
          /\ site' = Serve(next_url, page)
          /\ printed' = printed \cup fetching \cup r.printed
          /\ IF r.raised
             THEN /\ pc' = "aborted"
                  /\ UNCHANGED <<next_url, data_list, data>>
             ELSE /\ data_list' = Extend(data_list, r.data_page)
                  /\ next_url' = r.next_url
                  /\ IF WhileCond'
                     THEN pc' = "running" /\ data' = data
                     ELSE pc' = "done" /\ data' = [bound |-> TRUE, val |-> data_list']
    /\ UNCHANGED <<variant, opens, file>>

DutchGetData == Iteration("A", {"Fetching data from page"})

GermanGetData == Iteration("B", {"Fetching data from page"})

ItalyMainLoop == Iteration("C", {})

----------------------------------------------------------------------------
(* The sink *)

NoFile == [exists |-> FALSE, header |-> <<>>, rows |-> <<>>]

\* The field names of a record of script v, in the order of its dict literal.
Keys(v) ==
    CASE v = "A" -> <<"title", "warning_text", "date">>
      [] v = "B" -> <<"date", "device", "device_type", "device_reference">>
      [] OTHER -> <<"column_1">>

\* DictWriter.writerow: the record's values in the order of the field names.
Row(keys, rec) == [i \in 1 .. Len(keys) |-> rec[keys[i]]]

Rows(keys, recs) == [i \in 1 .. Len(recs) |-> Row(keys, recs[i])]

\* The file after open(filename, "w") and the writes that follow, for a
\* non-empty list.
Written(v, recs) ==
    [exists |-> TRUE, header |-> Keys(v), rows |-> Rows(Keys(v), recs)]

\* open(filename, "w") alone: the file exists and is empty.
Truncated == [exists |-> TRUE, header |-> <<>>, rows |-> <<>>]

\* write_to_csv of the Dutch and the German script: the file is opened, then
\* data[0] is read.
write_to_csv(v) ==
    /\ printed' = printed \cup {"Writing data to"} \cup
                     (IF v = "B" THEN {"Writing the collected data"} ELSE {})
    /\ opens' = opens + 1
    /\ IF data.val = <<>>
       THEN file' = Truncated /\ pc' = "sinkfailed"
       ELSE file' = Written(v, data.val) /\ pc' = "written"

\* dutch_scraper_main.py, module level: write_to_csv(data, ...) after get_data.
DutchWrite ==
    /\ variant = "A"
    /\ pc = "done"
    /\ write_to_csv("A")
    /\ UNCHANGED <<variant, site, next_url, data_list, data, log>>

\* german_scraper_main.py, main: if data: write_to_csv(...) else a diagnostic.
GermanMainWrite ==
    /\ variant = "B"
    /\ pc = "done"
    /\ IF data.val # <<>>
       THEN write_to_csv("B")
       ELSE /\ printed' = printed \cup {"No data collected"}
            /\ pc' = "nooutput"
            /\ UNCHANGED <<opens, file>>
    /\ UNCHANGED <<variant, site, next_url, data_list, data, log>>

\* italy_scraper_main.py, save_to_csv: if data: open and write, else a diagnostic.
save_to_csv ==
    /\ variant = "C"
    /\ pc = "done"
    /\ IF data.val # <<>>
       THEN /\ opens' = opens + 1
            /\ file' = Written("C", data.val)
            /\ pc' = "written"
            /\ UNCHANGED printed
       ELSE /\ printed' = printed \cup {"No data to write to CSV"}
            /\ pc' = "nooutput"
            /\ UNCHANGED <<opens, file>>
    /\ UNCHANGED <<variant, site, next_url, data_list, data, log>>

----------------------------------------------------------------------------
(* The crawl specification *)

Init ==
    /\ variant \in Variants
    /\ site = [i \in PageIds |-> NoPage]
    /\ next_url = start_url
    /\ data_list = <<>>
    /\ data = [bound |-> FALSE, val |-> <<>>]
    /\ log = <<>>
    /\ pc = "running"
    /\ opens = 0
    /\ file = NoFile
    /\ printed = IF variant = "B" THEN {"Starting the data collection process"} ELSE {}

Next ==
    \/ DutchGetData
    \/ GermanGetData
    \/ ItalyMainLoop
    \/ DutchWrite
    \/ GermanMainWrite
    \/ save_to_csv

Spec == Init /\ [][Next]_vars

----------------------------------------------------------------------------
(* The extractor alone, on every page shape *)

ExtractPages(v) ==
    {Page("ok", v = "C", items, NoNav) : items \in SeqsUpTo(Items(v), MaxRows(v))}
    \cup (IF v = "C" THEN {Page("ok", FALSE, <<>>, NoNav)} ELSE {})

InitExtract ==
    /\ variant \in Variants
    /\ \E page \in ExtractPages(variant) :
          site = [i \in PageIds |-> IF i = 1 THEN page ELSE NoPage]
    /\ next_url = start_url
    /\ data_list = <<>>
    /\ data = [bound |-> FALSE, val |-> <<>>]
    /\ log = <<>>
    /\ pc = "extract"
    /\ opens = 0
    /\ file = NoFile
    /\ printed = {}

\* The extractor of script v applied to the parsed page.
Extraction(v) ==
    /\ variant = v
    /\ pc = "extract"
    /\ LET ex == Extract(v, site[1]) IN
          /\ data_list' = ex.recs
          /\ pc' = IF ex.raised THEN "raised" ELSE "extracted"
    /\ UNCHANGED <<variant, site, next_url, data, log, opens, file, printed>>

ExtractDutch == Extraction("A")

ExtractGerman == Extraction("B")

scrape_page == Extraction("C")

NextExtract == ExtractDutch \/ ExtractGerman \/ scrape_page

SpecExtract == InitExtract /\ [][NextExtract]_vars

----------------------------------------------------------------------------
(* What the claims speak of *)

\* The page the i-th GET was served.
PageAt(i) == IF log[i].kind = "abs" THEN site[log[i].id] ELSE NoPage

\* The i-th GET succeeded.
Fetched(i) == log[i].kind = "abs" /\ PageAt(i).fetch = "ok"

\* The element has every sub-element its extractor reads without a test.
Complete(v, e) ==
    CASE v = "A" -> e.h3.present /\ (e.p.present \/ e.meta.present) /\ e.meta.present
      [] v = "B" -> Len(e.tds) >= 2 =>
                       (Len(e.strongs) >= 2 =>
                           e.strongs[1].present /\ e.strongs[2].present)
      [] OTHER -> Len(e.tds) >= 1

\* Every repeating element of the page is complete.
WellFormed(v, page) ==
    \A k \in 1 .. Len(Elements(v, page)) : Complete(v, Elements(v, page)[k])

\* The elements of the page that stand for a record.
RecordElements(v, page) ==
    SelectSeq(Elements(v, page), LAMBDA e : v = "B" => Len(e.tds) >= 2)

\* The records of a page, in document order; none for a page whose fetch or
\* extraction fails.
PageRecords(i) ==
    IF Fetched(i) /\ WellFormed(variant, PageAt(i))
    THEN [k \in 1 .. Len(RecordElements(variant, PageAt(i))) |->
             RecordOf(variant, RecordElements(variant, PageAt(i))[k])]
    ELSE <<>>

\* The records of the first n fetched pages, page after page.
RecordsUpTo(n) == Concat([i \in 1 .. n |-> PageRecords(i)])

\* Fetch or extraction failed at the i-th page.
FailedAt(i) == ~Fetched(i) \/ ~WellFormed(variant, PageAt(i))

\* The i-th page call met an exception: in the fetch, in the extraction, or (in
\* B, where the missing li is not tested for) in the next-link lookup.
CallFailedAt(i) ==
    FailedAt(i) \/ Resolve(variant, log[i], PageAt(i).nav).raised

\* The loop has ended by its test, not by an exception.
EndedNormally == pc \in {"done", "written", "nooutput", "sinkfailed"}

\* The sink has been called.
SinkInvoked == pc \in {"written", "nooutput", "sinkfailed"}

SinkDiagnostics ==
    {"Writing data to", "Writing the collected data", "No data collected",
     "No data to write to CSV"}

\* The page has no next-page element, or one without a usable link target.
NoUsableNext(nav) == ~nav.elem \/ ~nav.a \/ ~Truthy(nav.href)

\* The first K fetched pages form a chain: each of the first K-1 links to the
\* following one, and the K-th has no next-link element.
IsChain(K) ==
    /\ \A i \in 1 .. K : Fetched(i) /\ WellFormed(variant, PageAt(i))
    /\ \A i \in 1 .. K - 1 :
          PageAt(i).nav.a /\ Truthy(PageAt(i).nav.href) /\ PageAt(i).nav.href = log[i + 1]
    /\ ~PageAt(K).nav.elem

----------------------------------------------------------------------------
(* C1 *)

\* C1: on a chain of K pages whose last page has no next-link element, the loop
\* does exactly K fetches and then ends normally, returning the accumulated
\* records to its caller.
C1_ExactlyKFetchesThenDone ==
    \A K \in 1 .. Len(log) :
        IsChain(K) =>
            /\ Len(log) = K
            /\ EndedNormally
            /\ data.bound /\ data.val = data_list

----------------------------------------------------------------------------
(* C2 *)

\* C2: when the crawl has ended normally, the accumulator, the value returned
\* to the caller and the rows written are the records of the fetched pages,
\* page after page in fetch order and in document order within a page.
C2_RecordsInPageOrder ==
    EndedNormally =>
        /\ data_list = RecordsUpTo(Len(log))
        /\ data.bound /\ data.val = data_list
        /\ pc = "written" => file.rows = Rows(Keys(variant), RecordsUpTo(Len(log)))

\* Two pages were fetched, the first gave two records and the second one, and
\* the file is written.
C2_Witness ==
    /\ pc = "written"
    /\ Len(log) = 2
    /\ Len(PageRecords(1)) = 2
    /\ Len(PageRecords(2)) = 1
    /\ PageRecords(1)[1] # PageRecords(1)[2]

----------------------------------------------------------------------------
(* C3 *)

\* C3: once the sink has been called with an empty record sequence, the run is
\* in the no-output state: the sink did not raise, no file was opened or
\* created, and a diagnostic was printed.
C3_EmptyCrawlNoOutput ==
    (SinkInvoked /\ data.val = <<>>) =>
        /\ pc = "nooutput"
        /\ opens = 0 /\ ~file.exists
        /\ printed \cap {"No data collected", "No data to write to CSV"} # {}

----------------------------------------------------------------------------
(* C4 *)

\* C4: when the last fetched page was fetched and extracted and has no usable
\* next link, the loop has ended normally with a falsy current URL and with the
\* records of that page kept at the end of the accumulator.
C4_NoNextLinkEndsNormally ==
    (/\ log # <<>>
     /\ ~FailedAt(Len(log))
     /\ NoUsableNext(PageAt(Len(log)).nav)) =>
        /\ EndedNormally
        /\ ~Truthy(next_url)
        /\ data_list = RecordsUpTo(Len(log))

----------------------------------------------------------------------------
(* C7 *)

\* C7: the output file is opened at most once, only after the loop has ended
\* and never while the current URL is set, and not at all when the crawl was
\* aborted by an exception.
C7_WrittenOnceAfterDone ==
    /\ opens <= 1
    /\ (opens > 0 \/ file.exists) =>
           /\ pc \in {"written", "sinkfailed"}
           /\ ~Truthy(next_url)
           /\ data.bound
    /\ pc = "aborted" => opens = 0 /\ ~file.exists
    /\ pc = "running" => opens = 0 /\ ~file.exists

\* The file has been written after a crawl of two pages.
C7_Witness ==
    /\ pc = "written"
    /\ opens = 1
    /\ file.exists /\ file.rows # <<>>
    /\ Len(log) >= 2

----------------------------------------------------------------------------
(* C8 *)

\* C8: after a failure at the last fetched page, the Dutch loop has ended
\* normally with exactly the records of the pages before it, and the German and
\* Italian runs are aborted: nothing was returned and the sink was never called.
C8_FailureOutcomeByVariant ==
    (log # <<>> /\ CallFailedAt(Len(log))) =>
        IF variant = "A"
        THEN /\ EndedNormally
             /\ ~Truthy(next_url)
             /\ data_list = RecordsUpTo(Len(log) - 1)
             /\ data.bound /\ data.val = data_list
        ELSE /\ pc = "aborted"
             /\ ~data.bound
             /\ opens = 0 /\ ~file.exists
             /\ printed \cap SinkDiagnostics = {}

\* The Dutch crawl failed at its second page after a record of that page had
\* been extracted, and kept the records of the first page.
C8_Witness ==
    /\ variant = "A"
    /\ Len(log) = 2
    /\ Fetched(2)
    /\ Extract("A", PageAt(2)).raised
    /\ Extract("A", PageAt(2)).recs # <<>>
    /\ data_list # <<>>
    /\ EndedNormally

----------------------------------------------------------------------------
(* C9 *)

\* The last page was fetched and extracted, and its next link leads to a URL
\* that was fetched before: the chain has closed into a cycle.
CycleClosed ==
    /\ log # <<>>
    /\ ~FailedAt(Len(log))
    /\ PageAt(Len(log)).nav.a
    /\ PageAt(Len(log)).nav.href \in Range(log)

\* C9: once the chain of successfully fetched pages has closed into a cycle,
\* the loop is still running, the sink has not been called, and another fetch
\* is possible as long as the model's fetch bound allows one.
C9_CycleNeverDone ==
    CycleClosed =>
        /\ pc = "running"
        /\ next_url = PageAt(Len(log)).nav.href
        /\ ~SinkInvoked /\ opens = 0 /\ ~data.bound
        /\ Len(log) < MaxFetches => ENABLED Iteration(variant, {})

\* The loop is still running after more fetches than there are URLs.
C9_Witness ==
    /\ CycleClosed
    /\ pc = "running"
    /\ Len(log) = MaxFetches
    /\ Cardinality(Range(log)) = NumURLs

----------------------------------------------------------------------------
(* C10 *)

\* C10: the first URL fetched is the start URL, every later one is the href
\* attribute of the page fetched before it, as it stands in that page, and the
\* current URL is the start URL before the first fetch and that href while the
\* loop runs.
C10_HrefPassedUnchanged ==
    /\ log # <<>> => log[1] = start_url
    /\ \A i \in 2 .. Len(log) : log[i] = PageAt(i - 1).nav.href
    /\ log = <<>> => next_url = start_url
    /\ (log # <<>> /\ pc = "running") => next_url = PageAt(Len(log)).nav.href
    /\ pc = "aborted" => next_url = log[Len(log)]

\* A site-relative href was passed to the GET as it stands.
C10_Witness ==
    \E i \in 2 .. Len(log) :
        /\ log[i].kind = "rel"
        /\ PageAt(i - 1).nav.href = log[i]

----------------------------------------------------------------------------
(* C5 and C6, on the extractor alone (SpecExtract) *)

\* C5: whatever sub-elements are missing, the extractor does not raise, and the
\* record of every complete element of the page is among the records produced.
C5_MissingElementHandledLocally ==
    pc # "extract" =>
        /\ pc = "extracted"
        /\ \A k \in 1 .. Len(RecordElements(variant, site[1])) :
              LET e == RecordElements(variant, site[1])[k] IN
              Complete(variant, e) => RecordOf(variant, e) \in Range(data_list)

\* The rows of the page with at least two cells, in document order.
KeptRows == SelectSeq(site[1].items, LAMBDA tr : Len(tr.tds) >= 2)

\* The row has two strong elements and one of the first two has no text node
\* after it.
BrokenPair(tr) ==
    Len(tr.strongs) >= 2 /\ ~(tr.strongs[1].present /\ tr.strongs[2].present)

====
